---- MODULE Spec2Model ----
(***************************************************************************)
(* The function execution runtime of function/runtime.go: one Execute call *)
(* loads a script into a fresh interpreter, binds the capabilities (log,   *)
(* create, list, getById, query, update, del, send), prepares the trigger  *)
(* arguments, invokes handle and starts the detached recorder `complete`.  *)
(*                                                                         *)
(* The script, the document store, the query parser, the publisher and the *)
(* function-history store are outside the repository: what they do is a    *)
(* nondeterministic choice (\E) in the actions below.                      *)
(***************************************************************************)
EXTENDS Integers, Sequences, FiniteSets, TLC

\* ---------------------------------------------------------------- bounds
MaxInv == 2     \* Execute calls the dispatcher makes in one behaviour
MaxCalls == 1   \* data and messaging calls the scripts make in one behaviour
MaxLogs == 2    \* log calls the scripts make in one behaviour
MaxArgs == 3    \* longest argument list a script passes to a capability
MaxDocs == 2    \* documents in one paged result of the store

Invs == 1..MaxInv

\* ------------------------------------------------------ values and helpers
NoErr == ""     \* a nil Go error; any other string is err.Error()

\* primitive.ObjectID values are naturals below 256 and Hex() prints them as
\* two lower-case hexadecimal digits (the real one prints 12 bytes).
HexDigit == <<"0", "1", "2", "3", "4", "5", "6", "7",
              "8", "9", "a", "b", "c", "d", "e", "f">>

Hex(n) == HexDigit[((n \div 16) % 16) + 1] \o HexDigit[(n % 16) + 1]

\* A document field that clean() looks at: absent, an ObjectID, or any other
\* Go value (here: a string).
Absent == [kind |-> "absent", n |-> 0, s |-> ""]
OID(n) == [kind |-> "oid", n |-> n, s |-> ""]
Str(s) == [kind |-> "str", n |-> 0, s |-> s]

Doc(id, acct) == [id |-> id, accountId |-> acct]

\* documents the store may hand back
StoreDocs == { Doc(Absent, Absent),
               Doc(OID(3), OID(2)),
               Doc(OID(1), Absent),
               Doc(Absent, OID(2)),
               Doc(Str("x1"), OID(2)),
               Doc(OID(1), Str("x2")) }

\* Fault variant of clean: an id or accountId that is no ObjectID is passed
\* through instead of being refused.
cleanLenient(doc) ==
    [err |-> NoErr,
     doc |-> [id |-> IF doc.id.kind = "oid" THEN Str(Hex(doc.id.n)) ELSE doc.id,
              accountId |-> IF doc.accountId.kind = "oid"
                            THEN Str(Hex(doc.accountId.n))
                            ELSE doc.accountId]]

\* Fault variant of clean: only the id is converted, the accountId is left
\* as the store returned it.
cleanIdOnly(doc) ==
    IF doc.id.kind # "absent" /\ doc.id.kind # "oid"
    THEN [err |-> "unable to cast document id", doc |-> doc]
    ELSE IF doc.accountId.kind # "absent" /\ doc.accountId.kind # "oid"
    THEN [err |-> "unable to cast document accountId", doc |-> doc]
    ELSE [err |-> NoErr,
          doc |-> IF doc.id.kind = "oid"
                  THEN [doc EXCEPT !.id = Str(Hex(doc.id.n))]
                  ELSE doc]

\* func (*ExecutionEnvironment) clean(doc) error; the map is changed in place,
\* so the result carries the document as clean leaves it.
clean(doc) ==
    IF doc.id.kind # "absent" /\ doc.id.kind # "oid"
    THEN [err |-> "unable to cast document id", doc |-> doc]
    ELSE LET d1 == IF doc.id.kind = "oid"
                   THEN [doc EXCEPT !.id = Str(Hex(doc.id.n))]
                   ELSE doc
         IN  IF d1.accountId.kind # "absent" /\ d1.accountId.kind # "oid"
             THEN [err |-> "unable to cast document accountId", doc |-> d1]
             ELSE [err |-> NoErr,
                   doc |-> IF d1.accountId.kind = "oid"
                           THEN [d1 EXCEPT !.accountId = Str(Hex(d1.accountId.n))]
                           ELSE d1]

\* for _, v := range result.Results { if err := env.clean(v); err != nil { return } }
RECURSIVE cleanAll(_)
cleanAll(docs) ==
    IF docs = <<>>
    THEN [err |-> NoErr, docs |-> <<>>]
    ELSE LET c == clean(Head(docs))
         IN  IF c.err # NoErr
             THEN [err |-> c.err, docs |-> <<c.doc>> \o Tail(docs)]
             ELSE LET rest == cleanAll(Tail(docs))
                  IN  [err |-> rest.err, docs |-> <<c.doc>> \o rest.docs]

\* type Result struct { OK bool; Content interface{} }: Content is a message
\* (msg), documents (docs) or a count (n).
Fail(m) == [OK |-> FALSE, msg |-> m, docs |-> <<>>, n |-> 0]
OkDocs(ds) == [OK |-> TRUE, msg |-> "", docs |-> ds, n |-> 0]
OkCount(k) == [OK |-> TRUE, msg |-> "", docs |-> <<>>, n |-> k]
OkEmpty == [OK |-> TRUE, msg |-> "", docs |-> <<>>, n |-> 0]
NoResult == [OK |-> FALSE, msg |-> "", docs |-> <<>>, n |-> 0]

\* ------------------------------------------------------- script arguments
\* JavaScript values a script passes: two strings, a plain object, an array
\* of clause triples, undefined, and the number NaN.
Vals == {"s1", "s2", "o", "q", "u", "nan"}

\* vm.ExportTo(v, &target) is goja's; it is taken to fail exactly when the
\* value is not of the target's kind.
ExportsString(v) == v \in {"s1", "s2"}
ExportsObject(v) == v = "o"
ExportsClauses(v) == v = "q"
IsNullish(v) == v = "u"

\* json.Marshal(v.Export()): NaN has no JSON form.
MarshalErr(v) == IF v = "nan" THEN "json: unsupported value: NaN" ELSE NoErr

Marshal(v) ==
    CASE v = "s1" -> "\"s1\""
      [] v = "s2" -> "\"s2\""
      [] v = "o" -> "{\"x\":1}"
      [] v = "q" -> "[[\"done\",\"==\",false]]"
      [] OTHER -> "null"

\* Argument lists of length 0..MaxArgs whose k-th value is drawn from
\* choices[k]; positions past the choices hold "s1".
RECURSIVE ListsOf(_, _)
ListsOf(choices, n) ==
    IF n = 0
    THEN {<<>>}
    ELSE {Append(p, v) : p \in ListsOf(choices, n - 1),
                         v \in (IF n <= Len(choices) THEN choices[n] ELSE {"s1"})}

ArgLists(choices) == UNION {ListsOf(choices, n) : n \in 0..MaxArgs}

\* ------------------------------------------------ log(...): fmt.Sprint
S(t) == [t |-> "str", s |-> t]
N(t) == [t |-> "num", s |-> t]

\* fmt.Sprint adds a space between operands when neither is a string.
RECURSIVE Sprint(_)
Sprint(ps) ==
    IF ps = <<>>
    THEN ""
    ELSE IF Len(ps) = 1
         THEN ps[1].s
         ELSE LET init == SubSeq(ps, 1, Len(ps) - 1)
                  last == ps[Len(ps)]
                  prev == ps[Len(ps) - 1]
              IN  Sprint(init)
                  \o (IF prev.t # "str" /\ last.t # "str" THEN " " ELSE "")
                  \o last.s

LogArgLists == {<<>>, <<S("a")>>, <<S("b"), N("7"), N("7")>>}

\* ------------------------------------------------- environment records
\* internal.Auth is a record of the caller's user id and token; the
\* capabilities use the value itself and ReconstructToken().
ReconstructToken(auth) == auth.UserID \o "|" \o auth.Token

\* What the dispatcher puts into the ExecutionEnvironment it builds: Auth, DB
\* and Data (the function's ID and Version; its Code is the script, which the
\* actions choose step by step).
EnvConfig == [Auth |-> [UserID |-> "u1", Token |-> "t1"], DB |-> "db1",
              FnID |-> 10, Version |-> 3]

NoConfig == [Auth |-> [UserID |-> "", Token |-> ""], DB |-> "", FnID |-> 0, Version |-> 0]

\* The zero value of ExecHistory, which is what CurrentRun holds in a new
\* environment.
ZeroRun == [ID |-> "", Version |-> 0, Started |-> 0, Completed |-> 0,
            Success |-> FALSE, Output |-> <<>>]

\* --------------------------------------- what the external services answer
\* perr: db.ParseQuery's error; err: the store's or the publisher's error;
\* docs, n: the documents or the count the store returns.
NoResp == [perr |-> NoErr, err |-> NoErr, docs |-> <<>>, n |-> 0]
ErrResp == [perr |-> NoErr, err |-> "store failure", docs |-> <<>>, n |-> 0]
ParseErrResp == [perr |-> "invalid clause", err |-> NoErr, docs |-> <<>>, n |-> 0]
DocResp(d) == [perr |-> NoErr, err |-> NoErr, docs |-> <<d>>, n |-> 0]
PageResp(ds) == [perr |-> NoErr, err |-> NoErr, docs |-> ds, n |-> 0]
CountResp(k) == [perr |-> NoErr, err |-> NoErr, docs |-> <<>>, n |-> k]

\* The pages the store returns: up to MaxDocs documents, any document last
\* and before it documents that clean accepts (the loops of list and query
\* stop at the first document it rejects).
RECURSIVE PagesOf(_)
PagesOf(k) ==
    IF k = 0
    THEN {<<>>}
    ELSE {<<Doc(OID(1), Absent)>> \o p : p \in {q \in PagesOf(k - 1) : q # <<>>}}
         \cup {<<d>> : d \in StoreDocs}

DocSeqs == UNION {PagesOf(k) : k \in 0..MaxDocs}

DocResponses == {ErrResp} \cup {DocResp(d) : d \in StoreDocs}
PageResponses == {ErrResp} \cup {PageResp(ds) : ds \in DocSeqs}
QueryResponses == {ParseErrResp} \cup PageResponses
CountResponses == {ErrResp, CountResp(0), CountResp(1)}
PublishResponses == {ErrResp, NoResp}

\* ------------------------------------------------------ capability calls
\* What one capability call does: the Result it returns to the script, the
\* calls it makes to the document store, to the query parser and to the
\* publisher.
Outcome(res, st, pa, pu) == [result |-> res, store |-> st, parsed |-> pa, pub |-> pu]
Soft(m) == Outcome(Fail(m), <<>>, 0, <<>>)

\* Fault variant of StoreCall: the store is called without the caller's Auth.
StoreCallUnscoped(op, cfg, col) ==
    [op |-> op, auth |-> NoConfig.Auth, db |-> cfg.DB, col |-> col]

StoreCall(op, cfg, col) == [op |-> op, auth |-> cfg.Auth, db |-> cfg.DB, col |-> col]

\* runtime.go:124-134: what create answers before it reaches the store
createArgErr(a) ==
    IF Len(a) # 2
    THEN "argument missmatch: you need 2 arguments for create(col, doc"
    ELSE IF ~ExportsString(a[1]) THEN "the first argument should be a string"
    ELSE IF ~ExportsObject(a[2]) THEN "the second argument should be an object"
    ELSE NoErr

create(cfg, a, r) ==
    IF createArgErr(a) # NoErr
    THEN Soft(createArgErr(a))
    ELSE LET st == <<StoreCall("Add", cfg, a[1])>>
         IN  IF r.err # NoErr
             THEN Outcome(Fail("error calling create(): " \o r.err), st, 0, <<>>)
             ELSE LET c == clean(r.docs[1])
                  IN  IF c.err # NoErr
                      THEN Outcome(Fail(c.err), st, 0, <<>>)
                      ELSE Outcome(OkDocs(<<c.doc>>), st, 0, <<>>)

\* runtime.go:147-164
listArgErr(a) ==
    IF Len(a) < 1
    THEN "argument missmatch: your need at least 1 argument for list(col, [params])"
    ELSE IF ~ExportsString(a[1]) THEN "the first agrument should be a string"
    ELSE IF Len(a) >= 2 /\ ~IsNullish(a[2]) /\ ~ExportsObject(a[2])
         THEN "the second argument should be an object"
    ELSE NoErr

list(cfg, a, r) ==
    IF listArgErr(a) # NoErr
    THEN Soft(listArgErr(a))
    ELSE LET st == <<StoreCall("List", cfg, a[1])>>
         IN  IF r.err # NoErr
             THEN Outcome(Fail("error executing list: " \o r.err), st, 0, <<>>)
             ELSE LET c == cleanAll(r.docs)
                  IN  IF c.err # NoErr
                      THEN Outcome(Fail("error cleaning doc: " \o c.err), st, 0, <<>>)
                      ELSE Outcome(OkDocs(c.docs), st, 0, <<>>)

\* runtime.go:180-189
getByIdArgErr(a) ==
    IF Len(a) # 2
    THEN "argument missmatch: you need 2 arguments for get(col, id)"
    ELSE IF ~ExportsString(a[1]) THEN "the first argument should be a string"
    ELSE IF ~ExportsString(a[2]) THEN "the second argument should be a string"
    ELSE NoErr

getById(cfg, a, r) ==
    IF getByIdArgErr(a) # NoErr
    THEN Soft(getByIdArgErr(a))
    ELSE LET st == <<StoreCall("GetByID", cfg, a[1])>>
         IN  IF r.err # NoErr
             THEN Outcome(Fail("error calling get(): " \o r.err), st, 0, <<>>)
             ELSE LET c == clean(r.docs[1])
                  IN  IF c.err # NoErr
                      THEN Outcome(Fail(c.err), st, 0, <<>>)
                      ELSE Outcome(OkDocs(<<c.doc>>), st, 0, <<>>)

\* runtime.go:203-213: what query answers before it reaches the parser
queryArgErr(a) ==
    IF Len(a) < 2
    THEN "argument missmatch: you need at least 2 arguments for query(col, filter, [params])"
    ELSE IF ~ExportsString(a[1]) THEN "the first argument should be a string"
    ELSE IF ~ExportsClauses(a[2])
         THEN "the second argument should be a query filter: [['field', '==', 'value'], ...]"
    ELSE NoErr

\* runtime.go:220-228
queryParamsErr(a) ==
    IF Len(a) >= 3 /\ ~IsNullish(a[3]) /\ ~ExportsObject(a[3])
    THEN "the second argument should be an object"
    ELSE NoErr

query(cfg, a, r) ==
    IF queryArgErr(a) # NoErr
    THEN Soft(queryArgErr(a))
    ELSE IF r.perr # NoErr
    THEN Outcome(Fail("error parsing query filter: " \o r.perr), <<>>, 1, <<>>)
    ELSE IF queryParamsErr(a) # NoErr
    THEN Outcome(Fail(queryParamsErr(a)), <<>>, 1, <<>>)
    ELSE LET st == <<StoreCall("Query", cfg, a[1])>>
         IN  IF r.err # NoErr
             THEN Outcome(Fail("error executing query: " \o r.err), st, 1, <<>>)
             ELSE LET c == cleanAll(r.docs)
                  IN  IF c.err # NoErr
                      THEN Outcome(Fail("error cleaning doc: " \o c.err), st, 1, <<>>)
                      ELSE Outcome(OkDocs(c.docs), st, 1, <<>>)

\* Fault variant of updateArgErr: the count is checked, the types are not.
updateArgErrCountOnly(a) ==
    IF Len(a) # 3
    THEN "argument missmatch: you need 3 arguments for update(col, id, doc)"
    ELSE NoErr

\* runtime.go:244-259
updateArgErr(a) ==
    IF Len(a) # 3
    THEN "argument missmatch: you need 3 arguments for update(col, id, doc)"
    ELSE IF ~ExportsString(a[1]) THEN "the first argument should be a string"
    ELSE IF ~ExportsString(a[2]) THEN "the second argument should be a string"
    ELSE IF ~ExportsObject(a[3]) THEN "error executing update: could not convert to map"
    ELSE NoErr

update(cfg, a, r) ==
    IF updateArgErr(a) # NoErr
    THEN Soft(updateArgErr(a))
    ELSE LET st == <<StoreCall("Update", cfg, a[1])>>
         IN  IF r.err # NoErr
             THEN Outcome(Fail("error executing update: " \o r.err), st, 0, <<>>)
             ELSE LET c == clean(r.docs[1])
                  IN  IF c.err # NoErr
                      THEN Outcome(Fail("error cleaning doc: " \o c.err), st, 0, <<>>)
                      ELSE Outcome(OkDocs(<<c.doc>>), st, 0, <<>>)

\* runtime.go:273-283
delArgErr(a) ==
    IF Len(a) # 2
    THEN "argument missmatch: you need 3 arguments for del(col, id)"
    ELSE IF ~ExportsString(a[1]) THEN "the first argument should be a string"
    ELSE IF ~ExportsString(a[2]) THEN "the second argument should be a string"
    ELSE NoErr

\* Fault variant of del: a failed Delete is tried a second time.
delRetrying(cfg, a, r) ==
    IF delArgErr(a) # NoErr
    THEN Soft(delArgErr(a))
    ELSE LET st == <<StoreCall("Delete", cfg, a[1])>>
         IN  IF r.err # NoErr
             THEN Outcome(Fail("error executing del: " \o r.err), st \o st, 0, <<>>)
             ELSE Outcome(OkCount(r.n), st, 0, <<>>)

del(cfg, a, r) ==
    IF delArgErr(a) # NoErr
    THEN Soft(delArgErr(a))
    ELSE LET st == <<StoreCall("Delete", cfg, a[1])>>
         IN  IF r.err # NoErr
             THEN Outcome(Fail("error executing del: " \o r.err), st, 0, <<>>)
             ELSE Outcome(OkCount(r.n), st, 0, <<>>)

\* runtime.go:316-330
sendArgErr(a) ==
    IF Len(a) # 3
    THEN "argument missmatch: you need 3 arguments for send(type, data, channel)"
    ELSE IF ~ExportsString(a[1]) THEN "the first argument should be a string"
    ELSE IF ~ExportsString(a[3]) THEN "the third argument should be a string"
    ELSE IF MarshalErr(a[2]) # NoErr
         THEN "error converting your data: " \o MarshalErr(a[2])
    ELSE NoErr

\* Fault variant of Command: the caller's raw token instead of the
\* reconstructed one.
CommandRawToken(cfg, a) ==
    [SID |-> Hex(cfg.FnID), Type |-> a[1], Data |-> Marshal(a[2]),
     Channel |-> a[3], Token |-> cfg.Auth.Token]

\* internal.Command as runtime.go:332-338 fills it
Command(cfg, a) ==
    [SID |-> Hex(cfg.FnID), Type |-> a[1], Data |-> Marshal(a[2]),
     Channel |-> a[3], Token |-> ReconstructToken(cfg.Auth)]

send(cfg, a, r) ==
    IF sendArgErr(a) # NoErr
    THEN Soft(sendArgErr(a))
    ELSE LET pu == <<Command(cfg, a)>>
         IN  IF r.err # NoErr
             THEN Outcome(Fail("error publishing your message: " \o r.err), <<>>, 0, pu)
             ELSE Outcome(OkEmpty, <<>>, 0, pu)

\* The argument lists the scripts try: per position a value of the expected
\* kind and values of other kinds.
CreateArgs == ArgLists(<<{"s1", "o"}, {"o", "s2"}>>)
ListArgs == ArgLists(<<{"s1", "o"}, {"o", "u", "nan"}>>)
GetByIdArgs == ArgLists(<<{"s1", "o"}, {"s2", "nan"}>>)
QueryArgs == ArgLists(<<{"s1", "o"}, {"q", "s2"}, {"o", "u", "nan"}>>)
UpdateArgs == ArgLists(<<{"s1", "o"}, {"s2", "nan"}, {"o", "s1"}>>)
DelArgs == ArgLists(<<{"s1", "o"}, {"s2", "nan"}>>)
SendArgs == ArgLists(<<{"s1", "o"}, {"o", "u", "nan"}, {"s2", "q"}>>)

\* ------------------------------------------------------ trigger payloads
\* Execute's data, which line 50 reads: an *http.Request (its Content-Type, and whether the body is
\* well formed for the decoder that Content-Type selects) or any other value.
Payloads ==
    { [http |-> TRUE, ctype |-> c, body |-> b] :
        c \in {"application/json", "application/x-www-form-urlencoded"},
        b \in {"wellformed", "malformed"} }
    \cup { [http |-> TRUE, ctype |-> "text/plain", body |-> "wellformed"],
           [http |-> TRUE, ctype |-> "application/json; charset=utf-8",
            body |-> "wellformed"],
           [http |-> FALSE, ctype |-> "", body |-> "event"] }

NoPayload == [http |-> FALSE, ctype |-> "", body |-> ""]

\* Fault variant of prepareArguments: a Content-Type with parameters after
\* application/json is decoded as JSON too.
prepareArgumentsByMediaType(data) ==
    IF data.http
    THEN IF data.ctype \in {"application/json", "application/json; charset=utf-8"}
         THEN IF data.body = "malformed"
              THEN [err |-> "invalid character", args |-> <<>>]
              ELSE [err |-> NoErr, args |-> <<"json body", "query", "header">>]
         ELSE IF data.ctype = "application/x-www-form-urlencoded"
         THEN IF data.body = "malformed"
              THEN [err |-> "invalid URL escape", args |-> <<>>]
              ELSE [err |-> NoErr, args |-> <<"form", "query", "header">>]
         ELSE [err |-> NoErr, args |-> <<"query", "header">>]
    ELSE [err |-> NoErr, args |-> <<data.body>>]

\* func (env *ExecutionEnvironment) prepareArguments(vm, data) ([]goja.Value, error)
prepareArguments(data) ==
    IF data.http
    THEN IF data.ctype = "application/json"
         THEN IF data.body = "malformed"
              THEN [err |-> "invalid character", args |-> <<>>]
              ELSE [err |-> NoErr, args |-> <<"json body", "query", "header">>]
         ELSE IF data.ctype = "application/x-www-form-urlencoded"
         THEN IF data.body = "malformed"
              THEN [err |-> "invalid URL escape", args |-> <<>>]
              ELSE [err |-> NoErr, args |-> <<"form", "query", "header">>]
         ELSE [err |-> NoErr, args |-> <<"query", "header">>]
    ELSE [err |-> NoErr, args |-> <<data.body>>]

\* ------------------------------------------------------------------ state
VARIABLES
    now,         \* the clock time.Now() reads
    nextId,      \* the next primitive.NewObjectID()
    envCfg,      \* the environment's Auth, DB and Data
    CurrentRun,  \* env.CurrentRun
    pc,          \* per Execute call: where it is
    trigger,     \* per Execute call: data, from line 50 until handle is called
                 \* (kept when line 52 returns: history variable)
    args,        \* per Execute call: args, from line 50 until handle is called
    hErr,        \* per Execute call: err of line 64
    ret,         \* per Execute call: the error Execute returned
    rec,         \* per Execute call: where its goroutine env.complete(err) is
    runId,       \* per Execute call: the ID line 56 drew (history variable)
    handed,      \* per Execute call: the Ran calls its recorder made
    printed,     \* per Execute call: log.Println lines of its recorder
    soft,        \* per Execute call: the soft failures that a store, parser
                 \* or publisher error ("service") or a document that clean
                 \* rejects ("cast") caused in handle (history variable)
    script,      \* per Execute call: what its script turned out to be: one
                 \* that fails to load, one without handle, one with handle
                 \* (history variable)
    spawned,     \* per Execute call: go statements executed (history variable)
    reached,     \* per Execute call: the calls its script's capabilities
                 \* made to the store or the publisher (history variable)
    logged,      \* per Execute call: the argument lists of the log calls
                 \* handle made, in call order (history variable)
    preLogged,   \* per Execute call: the lines the log calls of its script's
                 \* top level appended (history variable)
    calls,       \* data and messaging calls made so far
    logs,        \* log calls made so far
    call         \* the capability call the running script has just made

vars == <<now, nextId, envCfg, CurrentRun, pc, trigger, args, hErr, ret,
          rec, runId, handed, printed, soft, script, spawned, reached, logged,
          preLogged, calls, logs, call>>

NoCall == [inv |-> 0, phase |-> "", op |-> "", args |-> <<>>, largs |-> <<>>,
           resp |-> NoResp, out |-> Outcome(NoResult, <<>>, 0, <<>>)]

Init ==
    /\ now = 1
    /\ nextId = 32
    /\ envCfg = NoConfig
    /\ CurrentRun = ZeroRun
    /\ pc = [i \in Invs |-> "idle"]
    /\ trigger = [i \in Invs |-> NoPayload]
    /\ args = [i \in Invs |-> <<>>]
    /\ hErr = [i \in Invs |-> NoErr]
    /\ ret = [i \in Invs |-> NoErr]
    /\ rec = [i \in Invs |-> "none"]
    /\ runId = [i \in Invs |-> ""]
    /\ handed = [i \in Invs |-> <<>>]
    /\ printed = [i \in Invs |-> 0]
    /\ soft = [i \in Invs |-> {}]
    /\ script = [i \in Invs |-> ""]
    /\ spawned = [i \in Invs |-> 0]
    /\ reached = [i \in Invs |-> 0]
    /\ logged = [i \in Invs |-> <<>>]
    /\ preLogged = [i \in Invs |-> 0]
    /\ calls = 0
    /\ logs = 0
    /\ call = NoCall

\* ---------------------------------------------------------------- Execute
\* The dispatcher calls Execute and blocks until it returns, so the calls
\* follow each other.
Returned(i) == pc[i] = "idle" /\ \A j \in Invs : j < i => pc[j] = "done"

\* runtime.go:33-39 on the environment the dispatcher has just built
Execute(i) ==
    /\ Returned(i)
    /\ envCfg = NoConfig
    /\ envCfg' = EnvConfig
    /\ pc' = [pc EXCEPT ![i] = "load"]
    /\ UNCHANGED <<now, nextId, CurrentRun, trigger, args, hErr, ret, rec, runId,
                   handed, printed, soft, script, spawned, calls, logs, call,
                   reached, logged, preLogged>>

\* runtime.go:33-39 on the environment after it has run Execute before
ExecuteAgain(i) ==
    /\ Returned(i)
    /\ envCfg # NoConfig
    /\ pc' = [pc EXCEPT ![i] = "load"]
    /\ UNCHANGED <<now, nextId, envCfg, CurrentRun, trigger, args, hErr, ret, rec,
                   runId, handed, printed, soft, script, spawned, calls, logs, call,
                   reached, logged, preLogged>>

\* Execute returns e: its locals are gone
Leave(i, e) ==
    /\ pc' = [pc EXCEPT ![i] = "done"]
    /\ ret' = [ret EXCEPT ![i] = e]
    /\ trigger' = [trigger EXCEPT ![i] = NoPayload]
    /\ args' = [args EXCEPT ![i] = <<>>]

\* runtime.go:41-43, vm.RunString fails
RunStringFail(i) ==
    /\ pc[i] = "load"
    /\ call = NoCall
    /\ Leave(i, "SyntaxError: unexpected token")
    /\ script' = [script EXCEPT ![i] = "loadfail"]
    /\ call' = NoCall
    /\ UNCHANGED <<now, nextId, envCfg, CurrentRun, hErr, rec, runId,
                   handed, printed, soft, spawned, calls, logs,
                   reached, logged, preLogged>>

\* runtime.go:41, vm.RunString succeeds
RunStringOk(i) ==
    /\ pc[i] = "load"
    /\ call = NoCall
    /\ pc' = [pc EXCEPT ![i] = "lookup"]
    /\ call' = NoCall
    /\ UNCHANGED <<now, nextId, envCfg, CurrentRun, trigger, args, hErr,
                   ret, rec, runId, handed, printed, soft, script, spawned, calls, logs,
                   reached, logged, preLogged>>

\* Fault variant of AssertFunction: the run record and its start marker are
\* made as soon as handle is found, before the arguments are prepared.
AssertFunctionStartsRun(i) ==
    /\ pc[i] = "lookup"
    /\ \E found \in BOOLEAN :
         /\ script' = [script EXCEPT ![i] = IF found THEN "handle" ELSE "nohandle"]
         /\ IF found
            THEN /\ pc' = [pc EXCEPT ![i] = "prep"]
                 /\ CurrentRun' = [ID |-> Hex(nextId), Version |-> envCfg.Version,
                                   Started |-> now, Completed |-> 0,
                                   Success |-> FALSE,
                                   Output |-> <<"Function started">>]
                 /\ nextId' = nextId + 1
                 /\ UNCHANGED <<ret, trigger, args>>
            ELSE /\ Leave(i, "unable to find function \"handle\"")
                 /\ UNCHANGED <<CurrentRun, nextId>>
    /\ UNCHANGED <<now, envCfg, hErr, rec, runId, handed, printed, soft, spawned,
                   calls, logs, call, reached, logged, preLogged>>

\* Fault variant of AssertFunction: a script without handle goes on to the
\* argument preparation.
AssertFunctionUnchecked(i) ==
    /\ pc[i] = "lookup"
    /\ \E found \in BOOLEAN :
         script' = [script EXCEPT ![i] = IF found THEN "handle" ELSE "nohandle"]
    /\ pc' = [pc EXCEPT ![i] = "prep"]
    /\ UNCHANGED <<now, nextId, envCfg, CurrentRun, trigger, args, hErr, ret, rec,
                   runId, handed, printed, soft, spawned, calls, logs, call,
                   reached, logged, preLogged>>

\* runtime.go:45-48, the script defines a callable handle or not
AssertFunction(i) ==
    /\ pc[i] = "lookup"
    /\ \E found \in BOOLEAN :
         /\ script' = [script EXCEPT ![i] = IF found THEN "handle" ELSE "nohandle"]
         /\ IF found
            THEN /\ pc' = [pc EXCEPT ![i] = "prep"]
                 /\ UNCHANGED <<ret, trigger, args>>
            ELSE Leave(i, "unable to find function \"handle\"")
    /\ UNCHANGED <<now, nextId, envCfg, CurrentRun, hErr, rec, runId,
                   handed, printed, soft, spawned, calls, logs, call,
                   reached, logged, preLogged>>

\* Fault variant of Prepare: the error of prepareArguments is dropped and
\* handle is called with the arguments prepared so far.
PrepareUnchecked(i) ==
    /\ pc[i] = "prep"
    /\ \E d \in Payloads :
         /\ trigger' = [trigger EXCEPT ![i] = d]
         /\ args' = [args EXCEPT ![i] = prepareArguments(d).args]
         /\ pc' = [pc EXCEPT ![i] = "run55"]
    /\ UNCHANGED <<now, nextId, envCfg, CurrentRun, hErr, ret, rec, runId,
                   handed, printed, soft, script, spawned, calls, logs, call,
                   reached, logged, preLogged>>

\* runtime.go:50-53, with the data Execute was called with
Prepare(i) ==
    /\ pc[i] = "prep"
    /\ \E d \in Payloads :
         LET p == prepareArguments(d)
         IN  IF p.err # NoErr
             THEN /\ pc' = [pc EXCEPT ![i] = "done"]
                  /\ ret' = [ret EXCEPT ![i] = "error preparing argument: " \o p.err]
                  /\ trigger' = [trigger EXCEPT ![i] = d]
                  /\ UNCHANGED args
             ELSE /\ trigger' = [trigger EXCEPT ![i] = d]
                  /\ args' = [args EXCEPT ![i] = p.args]
                  /\ pc' = [pc EXCEPT ![i] = "run55"]
                  /\ UNCHANGED ret
    /\ UNCHANGED <<now, nextId, envCfg, CurrentRun, hErr, rec, runId,
                   handed, printed, soft, script, spawned, calls, logs, call,
                   reached, logged, preLogged>>

\* Fault variant of NewRun: the new record keeps the Output CurrentRun had.
NewRunKeepingOutput(i) ==
    /\ pc[i] = "run55"
    /\ CurrentRun' = [ID |-> Hex(nextId), Version |-> envCfg.Version,
                      Started |-> now, Completed |-> 0, Success |-> FALSE,
                      Output |-> CurrentRun.Output]
    /\ runId' = [runId EXCEPT ![i] = Hex(nextId)]
    /\ nextId' = nextId + 1
    /\ pc' = [pc EXCEPT ![i] = "run62"]
    /\ UNCHANGED <<now, envCfg, trigger, args, hErr, ret, rec, handed,
                   printed, soft, script, spawned, calls, logs, call,
                   reached, logged, preLogged>>

\* runtime.go:55-60
NewRun(i) ==
    /\ pc[i] = "run55"
    /\ CurrentRun' = [ID |-> Hex(nextId), Version |-> envCfg.Version,
                      Started |-> now, Completed |-> 0, Success |-> FALSE,
                      Output |-> <<>>]
    /\ runId' = [runId EXCEPT ![i] = Hex(nextId)]
    /\ nextId' = nextId + 1
    /\ pc' = [pc EXCEPT ![i] = "run62"]
    /\ UNCHANGED <<now, envCfg, trigger, args, hErr, ret, rec, handed,
                   printed, soft, script, spawned, calls, logs, call,
                   reached, logged, preLogged>>

\* runtime.go:62-64: the start marker, then handle is called with args
AppendStarted(i) ==
    /\ pc[i] = "run62"
    /\ CurrentRun' = [CurrentRun EXCEPT !.Output =
                        Append(@, "Function started")]
    /\ pc' = [pc EXCEPT ![i] = "handler"]
    /\ trigger' = [trigger EXCEPT ![i] = NoPayload]
    /\ args' = [args EXCEPT ![i] = <<>>]
    /\ UNCHANGED <<now, nextId, envCfg, hErr, ret, rec, runId, handed,
                   printed, soft, script, spawned, calls, logs, call,
                   reached, logged, preLogged>>

\* --------------------------------------------- the script's capability calls
\* The script runs while vm.RunString evaluates its top level (line 41) and
\* while handle runs (line 64); in both it may call any bound capability.
Running(i) == pc[i] \in {"load", "handler"}

\* the script is not inside a capability: it may call one, return or throw
InScript(i) == Running(i) /\ call = NoCall
CanCall(i) == InScript(i) /\ calls < MaxCalls

\* the capability returns its value to the script
Resume(i) ==
    /\ Running(i)
    /\ call.inv = i
    /\ call' = NoCall
    /\ UNCHANGED <<now, nextId, envCfg, CurrentRun, pc, trigger, args, hErr, ret,
                   rec, runId, handed, printed, soft, script, spawned, calls, logs,
                   reached, logged, preLogged>>

\* the store, parser or publisher answers only a call that reaches it
Answers(argErr, answers) == IF argErr = NoErr THEN answers ELSE {NoResp}

\* an answer that is an error of the store, the parser or the publisher
ErrorAnswered(r, o) ==
    \/ o.parsed = 1 /\ r.perr # NoErr
    \/ (o.store # <<>> \/ o.pub # <<>>) /\ r.err # NoErr

\* an answer of the store that holds a document clean rejects
CastRejected(r, o) ==
    /\ o.store # <<>>
    /\ r.err = NoErr
    /\ cleanAll(r.docs).err # NoErr

SoftKinds(r, o) ==
    (IF ErrorAnswered(r, o) THEN {"service"} ELSE {})
    \cup (IF CastRejected(r, o) THEN {"cast"} ELSE {})

DoCall(i, op, a, r, o) ==
    /\ call' = [inv |-> i, phase |-> pc[i], op |-> op, args |-> a, largs |-> <<>>,
                resp |-> r, out |-> o]
    /\ calls' = calls + 1
    /\ soft' = [soft EXCEPT ![i] =
                 IF pc[i] = "handler" THEN @ \cup SoftKinds(r, o) ELSE @]
    /\ reached' = [reached EXCEPT ![i] = @ + Len(o.store) + Len(o.pub)]
    /\ UNCHANGED <<now, nextId, envCfg, CurrentRun, pc, trigger, args, hErr,
                   ret, rec, runId, handed, printed, script, spawned, logs,
                   logged, preLogged>>

\* Fault variant of log: a call without arguments appends a line too.
logEveryCall(out, ps) == Append(out, Sprint(ps))

\* runtime.go:108-119: the log a log(...) call leaves
log(out, ps) == IF Len(ps) = 0 THEN out ELSE Append(out, Sprint(ps))

Log(i) ==
    /\ InScript(i)
    /\ logs < MaxLogs
    /\ \E ps \in LogArgLists :
         /\ CurrentRun' = [CurrentRun EXCEPT !.Output = log(@, ps)]
         /\ call' = [NoCall EXCEPT !.inv = i, !.phase = pc[i], !.op = "log",
                                   !.largs = ps]
         /\ logged' = [logged EXCEPT ![i] =
                         IF pc[i] = "handler" THEN Append(@, ps) ELSE @]
         /\ preLogged' = [preLogged EXCEPT ![i] =
                            IF pc[i] = "load"
                            THEN @ + Len(log(<<>>, ps))
                            ELSE @]
    /\ logs' = logs + 1
    /\ UNCHANGED <<now, nextId, envCfg, pc, trigger, args, hErr, ret, rec,
                   runId, handed, printed, soft, script, spawned, calls,
                   reached>>

Create(i) ==
    /\ CanCall(i)
    /\ \E a \in CreateArgs :
         \E r \in Answers(createArgErr(a), DocResponses) :
            DoCall(i, "create", a, r, create(envCfg, a, r))

List(i) ==
    /\ CanCall(i)
    /\ \E a \in ListArgs :
         \E r \in Answers(listArgErr(a), PageResponses) :
            DoCall(i, "list", a, r, list(envCfg, a, r))

GetById(i) ==
    /\ CanCall(i)
    /\ \E a \in GetByIdArgs :
         \E r \in Answers(getByIdArgErr(a), DocResponses) :
            DoCall(i, "getById", a, r, getById(envCfg, a, r))

Query(i) ==
    /\ CanCall(i)
    /\ \E a \in QueryArgs :
         \E r \in Answers(queryArgErr(a),
                          IF queryParamsErr(a) = NoErr
                          THEN QueryResponses
                          ELSE {ParseErrResp, NoResp}) :
            DoCall(i, "query", a, r, query(envCfg, a, r))

Update(i) ==
    /\ CanCall(i)
    /\ \E a \in UpdateArgs :
         \E r \in Answers(updateArgErr(a), DocResponses) :
            DoCall(i, "update", a, r, update(envCfg, a, r))

Del(i) ==
    /\ CanCall(i)
    /\ \E a \in DelArgs :
         \E r \in Answers(delArgErr(a), CountResponses) :
            DoCall(i, "del", a, r, del(envCfg, a, r))

Send(i) ==
    /\ CanCall(i)
    /\ \E a \in SendArgs :
         \E r \in Answers(sendArgErr(a), PublishResponses) :
            DoCall(i, "send", a, r, send(envCfg, a, r))

\* ------------------------------------------------------ the end of Execute
\* runtime.go:64, handle returns
HandlerReturn(i) ==
    /\ pc[i] = "handler"
    /\ call = NoCall
    /\ hErr' = [hErr EXCEPT ![i] = NoErr]
    /\ pc' = [pc EXCEPT ![i] = "go"]
    /\ call' = NoCall
    /\ UNCHANGED <<now, nextId, envCfg, CurrentRun, trigger, args, ret, rec,
                   runId, handed, printed, soft, script, spawned, calls, logs,
                   reached, logged, preLogged>>

\* runtime.go:64, handle throws
HandlerThrow(i) ==
    /\ pc[i] = "handler"
    /\ call = NoCall
    /\ hErr' = [hErr EXCEPT ![i] = "Error: thrown by the script"]
    /\ pc' = [pc EXCEPT ![i] = "go"]
    /\ call' = NoCall
    /\ UNCHANGED <<now, nextId, envCfg, CurrentRun, trigger, args, ret, rec,
                   runId, handed, printed, soft, script, spawned, calls, logs,
                   reached, logged, preLogged>>

\* Fault variant of GoComplete: the recorder is started only after a handle
\* that returned normally.
GoCompleteOnSuccess(i) ==
    /\ pc[i] = "go"
    /\ IF hErr[i] = NoErr
       THEN /\ rec' = [rec EXCEPT ![i] = "r349"]
            /\ spawned' = [spawned EXCEPT ![i] = @ + 1]
       ELSE UNCHANGED <<rec, spawned>>
    /\ pc' = [pc EXCEPT ![i] = "ret"]
    /\ UNCHANGED <<now, nextId, envCfg, CurrentRun, trigger, args, hErr, ret,
                   runId, handed, printed, soft, script, calls, logs, call,
                   reached, logged, preLogged>>

\* runtime.go:65, go env.complete(err)
GoComplete(i) ==
    /\ pc[i] = "go"
    /\ rec' = [rec EXCEPT ![i] = "r349"]
    /\ spawned' = [spawned EXCEPT ![i] = @ + 1]
    /\ pc' = [pc EXCEPT ![i] = "ret"]
    /\ UNCHANGED <<now, nextId, envCfg, CurrentRun, trigger, args, hErr, ret,
                   runId, handed, printed, soft, script, calls, logs, call,
                   reached, logged, preLogged>>

\* runtime.go:66-70: the error Execute returns after handle
executeResult(err) ==
    IF err # NoErr THEN "error executing your function: " \o err ELSE NoErr

Return(i) ==
    /\ pc[i] = "ret"
    /\ Leave(i, executeResult(hErr[i]))
    /\ UNCHANGED <<now, nextId, envCfg, CurrentRun, hErr, rec, runId, handed,
                   printed, soft, script, spawned, calls, logs, call,
                   reached, logged, preLogged>>

\* ------------------------------------------- the recorder, env.complete(err)
\* runtime.go:349; time may have passed since line 58
SetCompleted(i) ==
    /\ rec[i] = "r349"
    /\ \E t \in {now, now + 1} :
         /\ now' = t
         /\ CurrentRun' = [CurrentRun EXCEPT !.Completed = t]
    /\ rec' = [rec EXCEPT ![i] = "r350"]
    /\ UNCHANGED <<nextId, envCfg, pc, trigger, args, hErr, ret, runId,
                   handed, printed, soft, script, spawned, calls, logs, call,
                   reached, logged, preLogged>>

\* Fault variant of SetSuccess: every completed run counts as a success.
SetSuccessAlways(i) ==
    /\ rec[i] = "r350"
    /\ CurrentRun' = [CurrentRun EXCEPT !.Success = TRUE]
    /\ rec' = [rec EXCEPT ![i] = "r352"]
    /\ UNCHANGED <<now, nextId, envCfg, pc, trigger, args, hErr, ret, runId,
                   handed, printed, soft, script, spawned, calls, logs, call,
                   reached, logged, preLogged>>

\* Fault variant of SetSuccess: a soft failure of a capability call counts
\* as a failure of the run.
SetSuccessStrict(i) ==
    /\ rec[i] = "r350"
    /\ CurrentRun' = [CurrentRun EXCEPT !.Success = (hErr[i] = NoErr /\ soft[i] = {})]
    /\ rec' = [rec EXCEPT ![i] = "r352"]
    /\ UNCHANGED <<now, nextId, envCfg, pc, trigger, args, hErr, ret, runId,
                   handed, printed, soft, script, spawned, calls, logs, call,
                   reached, logged, preLogged>>

\* runtime.go:350
SetSuccess(i) ==
    /\ rec[i] = "r350"
    /\ CurrentRun' = [CurrentRun EXCEPT !.Success = (hErr[i] = NoErr)]
    /\ rec' = [rec EXCEPT ![i] = "r352"]
    /\ UNCHANGED <<now, nextId, envCfg, pc, trigger, args, hErr, ret, runId,
                   handed, printed, soft, script, spawned, calls, logs, call,
                   reached, logged, preLogged>>

\* runtime.go:352
AppendCompleted(i) ==
    /\ rec[i] = "r352"
    /\ CurrentRun' = [CurrentRun EXCEPT !.Output =
                        Append(@, "Function completed")]
    /\ rec' = [rec EXCEPT ![i] = "r355"]
    /\ UNCHANGED <<now, nextId, envCfg, pc, trigger, args, hErr, ret, runId,
                   handed, printed, soft, script, spawned, calls, logs, call,
                   reached, logged, preLogged>>

\* Fault variant of AppendError: the error's message is not appended.
AppendErrorOmitted(i) ==
    /\ rec[i] = "r355"
    /\ rec' = [rec EXCEPT ![i] = "r360"]
    /\ UNCHANGED <<now, nextId, envCfg, CurrentRun, pc, trigger, args, hErr, ret,
                   runId, handed, printed, soft, script, spawned, calls, logs, call,
                   reached, logged, preLogged>>

\* runtime.go:355-357
AppendError(i) ==
    /\ rec[i] = "r355"
    /\ CurrentRun' = [CurrentRun EXCEPT !.Output =
                        IF hErr[i] # NoErr THEN Append(@, hErr[i]) ELSE @]
    /\ rec' = [rec EXCEPT ![i] = "r360"]
    /\ UNCHANGED <<now, nextId, envCfg, pc, trigger, args, hErr, ret, runId,
                   handed, printed, soft, script, spawned, calls, logs, call,
                   reached, logged, preLogged>>

\* Fault variant of Persist: a failed Ran is tried once more.
PersistRetrying(i) ==
    /\ rec[i] = "r360"
    /\ \E e \in {NoErr, "history store failure"} :
         /\ handed' = [handed EXCEPT ![i] =
                Append(@, [db |-> envCfg.DB, fn |-> envCfg.FnID,
                           run |-> CurrentRun, err |-> e])]
         /\ printed' = [printed EXCEPT ![i] = IF e # NoErr THEN @ + 1 ELSE @]
         /\ rec' = [rec EXCEPT ![i] =
                     IF e # NoErr /\ handed[i] = <<>> THEN "r360" ELSE "done"]
    /\ UNCHANGED <<now, nextId, envCfg, CurrentRun, pc, trigger, args, hErr,
                   ret, runId, soft, script, spawned, calls, logs, call,
                   reached, logged, preLogged>>

\* runtime.go:360-363: Ran(env.DB, env.Data.ID, env.CurrentRun) answers e
Persist(i) ==
    /\ rec[i] = "r360"
    /\ \E e \in {NoErr, "history store failure"} :
         /\ handed' = [handed EXCEPT ![i] =
                Append(@, [db |-> envCfg.DB, fn |-> envCfg.FnID,
                           run |-> CurrentRun, err |-> e])]
         /\ printed' = [printed EXCEPT ![i] = IF e # NoErr THEN @ + 1 ELSE @]
    /\ rec' = [rec EXCEPT ![i] = "done"]
    /\ UNCHANGED <<now, nextId, envCfg, CurrentRun, pc, trigger, args, hErr,
                   ret, runId, soft, script, spawned, calls, logs, call,
                   reached, logged, preLogged>>

\* ------------------------------------------------------- specifications
Step(i) ==
    \/ RunStringFail(i) \/ RunStringOk(i) \/ AssertFunction(i) \/ Prepare(i)
    \/ NewRun(i) \/ AppendStarted(i)
    \/ Log(i) \/ Resume(i) \/ Create(i) \/ List(i) \/ GetById(i) \/ Query(i) \/ Update(i)
    \/ Del(i) \/ Send(i)
    \/ HandlerReturn(i) \/ HandlerThrow(i) \/ GoComplete(i) \/ Return(i)

Recorder(i) ==
    \/ SetCompleted(i) \/ SetSuccess(i) \/ AppendCompleted(i) \/ AppendError(i)
    \/ Persist(i)

\* The dispatcher builds an environment and calls Execute on it once.
Next == \E i \in Invs : Execute(i) \/ Step(i) \/ Recorder(i)

Spec == Init /\ [][Next]_vars

\* Execute with a script that uses no capability but log: the data and
\* messaging capabilities neither read nor write CurrentRun.
StepLogging(i) ==
    \/ RunStringFail(i) \/ RunStringOk(i) \/ AssertFunction(i) \/ Prepare(i)
    \/ NewRun(i) \/ AppendStarted(i)
    \/ Log(i) \/ Resume(i)
    \/ HandlerReturn(i) \/ HandlerThrow(i) \/ GoComplete(i) \/ Return(i)

\* The dispatcher calls Execute on the environment again after a call has
\* returned, up to MaxInv calls in all; nothing makes it wait for a recorder.
NextReuse ==
    \E i \in Invs : Execute(i) \/ ExecuteAgain(i) \/ StepLogging(i) \/ Recorder(i)

SpecReuse == Init /\ [][NextReuse]_vars

\* The Go scheduler runs every started goroutine: a recorder that can take
\* a step eventually takes it.
FairSpec == Spec /\ \A i \in Invs : WF_vars(Recorder(i))

\* ------------------------------------------------------------- properties
DocOps == {"create", "list", "getById", "query", "update"}
DataOps == DocOps \cup {"del"}

\* the records the recorder of call i has handed to the history store
Records(i) == {handed[i][k].run : k \in 1..Len(handed[i])}

\* C1: every record handed to the history store has a log that starts with
\* "Function started"; after a handle that returned it ends with "Function
\* completed", after a handle that threw it ends with "Function completed"
\* followed by the error's message, whatever the script logged in between.
C1_LogShape ==
    \A i \in Invs : \A r \in Records(i) :
        LET out == r.Output
            n == Len(out)
        IN  /\ n >= 2
            /\ out[1] = "Function started"
            /\ hErr[i] = NoErr => out[n] = "Function completed"
            /\ hErr[i] # NoErr =>
                  /\ n >= 3
                  /\ out[n] = hErr[i]
                  /\ out[n - 1] = "Function completed"

\* C1: a record of a handle that logged twice and then threw
C1_Witness ==
    \E i \in Invs : \E r \in Records(i) :
        /\ hErr[i] # NoErr
        /\ Len(r.Output) = 5
        /\ r.Output[2] = "a"
        /\ r.Output[3] = "b7 7"

\* C2: a script that fails to load or has no callable handle makes Execute
\* return an error; handle is not invoked, no run record is created, no
\* recorder is started and nothing is handed to the history store.
C2_NoRunWithoutHandler ==
    \A i \in Invs :
        script[i] \in {"loadfail", "nohandle"} =>
            /\ pc[i] = "done"
            /\ ret[i] = (IF script[i] = "loadfail"
                         THEN "SyntaxError: unexpected token"
                         ELSE "unable to find function \"handle\"")
            /\ runId[i] = ""
            /\ CurrentRun.ID = ""
            /\ hErr[i] = NoErr
            /\ rec[i] = "none"
            /\ spawned[i] = 0
            /\ handed[i] = <<>>

\* C2: a script without handle whose top level logged and called a capability
C2_Witness ==
    \E i \in Invs :
        /\ script[i] = "nohandle"
        /\ pc[i] = "done"
        /\ calls = 1
        /\ logs = 1

\* C3: once handle has been invoked the recorder is started exactly once,
\* after a return as after a throw; Execute returns without waiting for it,
\* and a started recorder goes on to make its one call of the history store.
C3_RecorderDetached ==
    /\ [](\A i \in Invs :
            /\ spawned[i] <= 1
            /\ (runId[i] # "" /\ pc[i] \in {"ret", "done"}) => spawned[i] = 1
            /\ pc[i] \in {"idle", "load", "lookup", "prep", "run55", "run62",
                          "handler", "go"} => spawned[i] = 0)
    /\ \A i \in Invs :
          (pc[i] = "done" /\ runId[i] # "") ~> (Len(handed[i]) = 1)

\* C3: Execute has returned the error of a throwing handle and its recorder
\* has not taken a step
C3_Witness ==
    \E i \in Invs :
        /\ pc[i] = "done"
        /\ hErr[i] # NoErr
        /\ ret[i] = executeResult(hErr[i])
        /\ rec[i] = "r349"
        /\ handed[i] = <<>>

\* C4: the record handed to the history store for an Execute call carries
\* that call's identifier and outcome, also when Execute is called again on
\* the same environment before the first call's recorder has finished.
C4_RecordsIsolated ==
    \A i \in Invs : \A r \in Records(i) :
        /\ r.ID = runId[i]
        /\ r.Success = (hErr[i] = NoErr)

\* the message create, list, getById, query and update answer when clean
\* refuses a document
CastMessages(op) ==
    IF op \in {"create", "getById"}
    THEN {"unable to cast document id", "unable to cast document accountId"}
    ELSE {"error cleaning doc: unable to cast document id",
          "error cleaning doc: unable to cast document accountId"}

\* the store answered a document whose id or accountId is no ObjectID
Uncastable(c) ==
    /\ c.op \in DocOps
    /\ c.out.store # <<>>
    /\ c.resp.err = NoErr
    /\ \E k \in 1..Len(c.resp.docs) :
          \/ c.resp.docs[k].id.kind = "str"
          \/ c.resp.docs[k].accountId.kind = "str"

StatedArity(op) ==
    CASE op = "create" -> {2}
      [] op = "list" -> {1, 2}
      [] op = "getById" -> {2}
      [] op = "query" -> {2, 3}
      [] op = "update" -> {3}
      [] op = "del" -> {2}

\* the argument counts the data operations accept
AcceptedArity(op, n) ==
    CASE op = "list" -> n >= 1
      [] op = "query" -> n >= 2
      [] OTHER -> n \in StatedArity(op)

\* the k-th argument of op is of the type op's signature gives it; an
\* optional params argument may be null or undefined
TypeOk(op, k, v) ==
    CASE k = 1 -> ExportsString(v)
      [] k = 2 /\ op = "create" -> ExportsObject(v)
      [] k = 2 /\ op = "list" -> ExportsObject(v) \/ IsNullish(v)
      [] k = 2 /\ op = "query" -> ExportsClauses(v)
      [] k = 2 /\ op \in {"getById", "update", "del"} -> ExportsString(v)
      [] k = 3 /\ op = "query" -> ExportsObject(v) \/ IsNullish(v)
      [] k = 3 /\ op = "update" -> ExportsObject(v)
      [] OTHER -> TRUE

WrongType(op, a) == \E k \in 1..Len(a) : ~TypeOk(op, k, a[k])

\* the call answered a soft failure without reaching the store, and the
\* script goes on
RefusedBeforeStore(c) ==
    /\ ~c.out.result.OK
    /\ c.out.result.msg # ""
    /\ c.out.store = <<>>
    /\ pc[c.inv] = c.phase

\* C6 as stated: a data operation called with an argument count outside its
\* stated arity, or with an argument of the wrong type, answers a Result that
\* is not OK, does not reach the store and throws nothing.
C6_StatedArityChecked ==
    (call.op \in DataOps
       /\ (Len(call.args) \notin StatedArity(call.op)
            \/ WrongType(call.op, call.args))) =>
        RefusedBeforeStore(call)

\* C6 as the code has it: create, getById and del want exactly 2 arguments
\* and update exactly 3, list wants at least 1 and query at least 2 and both
\* ignore further ones; a call with another count or with an argument of the
\* wrong type answers a Result that is not OK, does not reach the store and
\* throws nothing; query hands its filter to the parser before it looks at
\* its third argument.
C6_ArgumentsChecked ==
    /\ (call.op \in DataOps
          /\ (~AcceptedArity(call.op, Len(call.args))
               \/ WrongType(call.op, call.args))) =>
           RefusedBeforeStore(call)
    /\ (call.op = "query" /\ call.out.store # <<>>) => call.out.parsed = 1
    /\ (call.op \in DataOps /\ call.op # "query") => call.out.parsed = 0

\* C6: query was called with a filter the parser accepted and a third
\* argument that is no object; it did not reach the store
C6_Witness ==
    /\ call.op = "query"
    /\ Len(call.args) = 3
    /\ ExportsClauses(call.args[2])
    /\ call.args[3] = "nan"
    /\ call.resp.perr = NoErr
    /\ call.out.parsed = 1
    /\ RefusedBeforeStore(call)

\* C7: an error of the store, the parser or the publisher is answered to the
\* script as a Result that is not OK and the script goes on; a handle that
\* then returns normally makes Execute return nil and the record successful.
C7_ServiceErrorsAreSoft ==
    /\ (call.op # "" /\ ErrorAnswered(call.resp, call.out)) =>
          /\ ~call.out.result.OK
          /\ call.out.result.msg # ""
          /\ pc[call.inv] = call.phase
    /\ \A i \in Invs :
          ("service" \in soft[i] /\ pc[i] = "done" /\ hErr[i] = NoErr) =>
              /\ ret[i] = NoErr
              /\ \A r \in Records(i) : r.Success

\* C7: handle got a service error from a capability, returned normally, and
\* the record handed to the history store is successful
C7_Witness ==
    \E i \in Invs : \E r \in Records(i) :
        /\ "service" \in soft[i]
        /\ hErr[i] = NoErr
        /\ pc[i] = "done"
        /\ ret[i] = NoErr
        /\ r.Success

\* the recorder of call i makes its call of the history store and the call
\* fails
PersistFails(i) ==
    /\ Len(handed'[i]) = Len(handed[i]) + 1
    /\ handed'[i][Len(handed'[i])].err # NoErr

\* C8: a failed call of the history store is printed and nothing else: it is
\* made once and not again, the recorder ends, what Execute returned or will
\* return stays as it is, and the environment keeps no trace of it.
C8_PersistFailureSwallowed ==
    /\ [](\A i \in Invs : Len(handed[i]) <= 1)
    /\ [][\A i \in Invs :
            PersistFails(i) =>
                /\ printed'[i] = printed[i] + 1
                /\ rec'[i] = "done"
                /\ UNCHANGED <<pc, ret, hErr, CurrentRun, envCfg, now, nextId>>]_vars
    /\ [][\A i \in Invs : pc[i] = "done" => (pc'[i] = "done" /\ ret'[i] = ret[i])]_vars

\* C8: Execute returned nil, the one call of the history store failed and
\* the recorder has ended
C8_Witness ==
    \E i \in Invs :
        /\ pc[i] = "done"
        /\ ret[i] = NoErr
        /\ Len(handed[i]) = 1
        /\ handed[i][1].err # NoErr
        /\ printed[i] = 1
        /\ rec[i] = "done"

\* a field of a returned document is the string form of the store's field
Stringified(got, stored) ==
    CASE stored.kind = "absent" -> got = Absent
      [] stored.kind = "oid" -> got = Str(Hex(stored.n))
      [] OTHER -> FALSE

\* C9: the documents of an OK Result of create, list, getById, query or
\* update carry id and accountId as strings, never as ObjectIDs, and a field
\* the store's document lacks is still absent.
C9_IdentifiersAreStrings ==
    (call.op \in DocOps /\ call.out.result.OK) =>
        /\ Len(call.out.result.docs) = Len(call.resp.docs)
        /\ \A k \in 1..Len(call.out.result.docs) :
              /\ Stringified(call.out.result.docs[k].id, call.resp.docs[k].id)
              /\ Stringified(call.out.result.docs[k].accountId,
                             call.resp.docs[k].accountId)

\* C9: list answered two documents, the second without id and with an
\* accountId
C9_Witness ==
    /\ call.op = "list"
    /\ call.out.result.OK
    /\ Len(call.out.result.docs) = 2
    /\ call.out.result.docs[1].id = Str("01")
    /\ call.out.result.docs[2].id = Absent
    /\ call.out.result.docs[2].accountId = Str("02")

\* C10: send with three arguments, a string type and a string channel
\* publishes one command: SID the function's id, Type and Channel the
\* script's, Data the JSON of the data, Token the reconstructed token of the
\* environment's Auth; its Result is OK exactly when the publisher accepts.
\* Data that has no JSON form, another argument count or a type or channel
\* that is no string publish nothing and answer a Result that is not OK.
C10_SendPublishesOnce ==
    call.op = "send" =>
        LET a == call.args
            o == call.out
        IN  IF Len(a) = 3 /\ ExportsString(a[1]) /\ ExportsString(a[3])
               /\ a[2] # "nan"
            THEN /\ o.pub = <<[SID |-> Hex(envCfg.FnID), Type |-> a[1],
                               Data |-> Marshal(a[2]), Channel |-> a[3],
                               Token |-> ReconstructToken(envCfg.Auth)]>>
                 /\ o.result.OK <=> call.resp.err = NoErr
                 /\ o.store = <<>>
            ELSE /\ o.pub = <<>>
                 /\ ~o.result.OK

\* C10: send("s1", {x:1}, "s2") published by the function 0a with the token
\* of user u1
C10_Witness ==
    /\ call.op = "send"
    /\ call.args = <<"s1", "o", "s2">>
    /\ call.out.result.OK
    /\ call.out.pub = <<[SID |-> "0a", Type |-> "s1", Data |-> "{\"x\":1}",
                         Channel |-> "s2", Token |-> "u1|t1"]>>

\* C11: every call a data capability makes to the store carries the Auth and
\* the DB of the environment and the collection the script named, whatever
\* the script passed; a capability call leaves the environment's Auth, DB
\* and Data as they were.
C11_StoreCallsScoped ==
    /\ [](call.op \in DataOps =>
            \A k \in 1..Len(call.out.store) :
                /\ call.out.store[k].auth = EnvConfig.Auth
                /\ call.out.store[k].db = EnvConfig.DB
                /\ call.out.store[k].col = call.args[1])
    /\ [][(call' # call \/ calls' # calls \/ logs' # logs) =>
            (envCfg' = envCfg /\ envCfg = EnvConfig)]_vars

\* C11: query("s1", filter, {x:1}) reached the store from handle
C11_Witness ==
    /\ call.op = "query"
    /\ call.phase = "handler"
    /\ call.args = <<"s1", "q", "o">>
    /\ call.out.store = <<[op |-> "Query", auth |-> [UserID |-> "u1", Token |-> "t1"],
                           db |-> "db1", col |-> "s1"]>>

\* C12: the arguments handle is called with follow the trigger: a request
\* whose Content-Type is application/json or
\* application/x-www-form-urlencoded and whose body is well formed gives the
\* decoded body, the query and the header; a request with any other
\* Content-Type gives the query and the header; any other payload gives the
\* payload alone.
C12_ArgumentsByTrigger ==
    \A i \in Invs :
        pc[i] \in {"run55", "run62"} =>
            LET d == trigger[i]
                a == args[i]
            IN  IF ~d.http
                THEN a = <<d.body>>
                ELSE IF d.ctype = "application/json"
                THEN d.body = "wellformed" /\ a = <<"json body", "query", "header">>
                ELSE IF d.ctype = "application/x-www-form-urlencoded"
                THEN d.body = "wellformed" /\ a = <<"form", "query", "header">>
                ELSE a = <<"query", "header">>

\* C12: a request whose Content-Type is application/json with a charset
\* parameter is about to reach handle with the query and the header
C12_Witness ==
    \E i \in Invs :
        /\ pc[i] = "run62"
        /\ trigger[i].http
        /\ trigger[i].ctype = "application/json; charset=utf-8"
        /\ args[i] = <<"query", "header">>

\* Execute was called with a request whose JSON or form body is malformed
Malformed(d) ==
    /\ d.http
    /\ d.ctype \in {"application/json", "application/x-www-form-urlencoded"}
    /\ d.body = "malformed"

\* Execute returned the error of prepareArguments; handle was not called and
\* no recorder was started
PreparationFailed(i) ==
    /\ pc[i] = "done"
    /\ ret[i] \in {"error preparing argument: invalid character",
                   "error preparing argument: invalid URL escape"}
    /\ runId[i] = ""
    /\ hErr[i] = NoErr
    /\ logged[i] = <<>>
    /\ soft[i] = {}
    /\ rec[i] = "none"
    /\ spawned[i] = 0
    /\ handed[i] = <<>>

\* C13 as stated: a malformed JSON or form body makes Execute return the
\* preparation error without calling handle, and no call of the store or of
\* the publisher was made for that Execute call.
C13_NoCallOnBadBody ==
    \A i \in Invs :
        Malformed(trigger[i]) => (PreparationFailed(i) /\ reached[i] = 0)

\* C13 as the code has it: a malformed JSON or form body makes Execute
\* return the preparation error without calling handle; the calls of the
\* store and of the publisher that the script's top level made while it was
\* loaded have happened by then.
C13_HandlerNotInvokedOnBadBody ==
    \A i \in Invs :
        Malformed(trigger[i]) => PreparationFailed(i)

\* C13: Execute returned the preparation error after the script's top
\* level had reached the store or the publisher
C13_Witness ==
    \E i \in Invs :
        /\ Malformed(trigger[i])
        /\ PreparationFailed(i)
        /\ reached[i] = 1

\* C14 as stated: the run record with its start marker exists from the
\* moment handle is found, so it is there while the arguments are prepared
\* and when their preparation fails.
C14_RecordBeforeAdapter ==
    \A i \in Invs :
        (pc[i] = "prep" \/ Malformed(trigger[i])) =>
            /\ CurrentRun.ID # ""
            /\ CurrentRun.Version = EnvConfig.Version
            /\ CurrentRun.Output = <<"Function started">>

\* C14 as the code has it: the run record is made after the arguments have
\* been prepared, right before handle is called; until then, and when the
\* preparation fails, a new environment's CurrentRun has no ID, Version or
\* Started and no start marker in its Output.
C14_RecordAfterAdapter ==
    \A i \in Invs :
        /\ (pc[i] \in {"load", "lookup", "prep", "run55"} \/ Malformed(trigger[i])) =>
              /\ runId[i] = ""
              /\ CurrentRun.ID = ""
              /\ CurrentRun.Version = 0
              /\ CurrentRun.Started = 0
              /\ \A k \in 1..Len(CurrentRun.Output) :
                    CurrentRun.Output[k] # "Function started"
        /\ pc[i] = "run62" =>
              /\ ~Malformed(trigger[i])
              /\ runId[i] # ""
              /\ CurrentRun = [ID |-> runId[i], Version |-> EnvConfig.Version,
                               Started |-> now, Completed |-> 0,
                               Success |-> FALSE, Output |-> <<>>]

\* C14: the preparation failed and CurrentRun holds no record, only the line
\* the script's top level logged
C14_Witness ==
    \E i \in Invs :
        /\ Malformed(trigger[i])
        /\ pc[i] = "done"
        /\ CurrentRun.ID = ""
        /\ CurrentRun.Output = <<"a">>

\* C15: a capability call calls the store or the publisher at most once,
\* also when that call fails, and the recorder of an Execute call calls the
\* history store at most once, also when that call fails.
C15_NothingRetried ==
    /\ call.op \in DataOps \cup {"send"} =>
          /\ Len(call.out.store) + Len(call.out.pub) <= 1
          /\ call.out.parsed <= 1
          /\ (call.out.parsed = 1 /\ call.resp.perr # NoErr) =>
                call.out.store = <<>>
          /\ (call.out.parsed = 0 /\ ErrorAnswered(call.resp, call.out)) =>
                Len(call.out.store) + Len(call.out.pub) = 1
    /\ \A i \in Invs :
          /\ reached[i] <= calls
          /\ Len(handed[i]) <= 1
          /\ printed[i] <= Len(handed[i])
          /\ rec[i] = "done" => Len(handed[i]) = 1

\* C15: del reached the store once, the store failed and del gave up
C15_Witness ==
    /\ call.op = "del"
    /\ call.resp.err # NoErr
    /\ Len(call.out.store) = 1
    /\ ~call.out.result.OK
    /\ reached[call.inv] = 1

\* C16: the record handed to the history store has Success true exactly
\* when handle gave no error, which is exactly when Execute returns nil; its
\* Completed is written by the recorder and is not before its Started.
C16_OutcomeRecorded ==
    \A i \in Invs :
        /\ rec[i] = "r349" => CurrentRun.Completed = 0
        /\ (pc[i] = "done" /\ runId[i] # "") =>
              (ret[i] = NoErr <=> hErr[i] = NoErr)
        /\ \A r \in Records(i) :
              /\ r.Success <=> hErr[i] = NoErr
              /\ pc[i] = "done" => (r.Success <=> ret[i] = NoErr)
              /\ r.Started >= 1
              /\ r.Completed >= r.Started
              /\ r.Completed <= now

\* C16: the record of a handle that threw: not successful, and completed
\* after it started
C16_Witness ==
    \E i \in Invs : \E r \in Records(i) :
        /\ pc[i] = "done"
        /\ ret[i] = "error executing your function: Error: thrown by the script"
        /\ ~r.Success
        /\ r.Completed > r.Started

\* one line for every log call of ls
RECURSIVE LinePerCall(_)
LinePerCall(ls) ==
    IF ls = <<>> THEN <<>> ELSE <<Sprint(Head(ls))>> \o LinePerCall(Tail(ls))

\* one line for every log call of ls that has arguments
RECURSIVE LinePerPrintingCall(_)
LinePerPrintingCall(ls) ==
    IF ls = <<>>
    THEN <<>>
    ELSE (IF Head(ls) = <<>> THEN <<>> ELSE <<Sprint(Head(ls))>>)
         \o LinePerPrintingCall(Tail(ls))

\* log returned undefined to a script that goes on
LogReturned ==
    call.op = "log" =>
        /\ call.out = NoCall.out
        /\ pc[call.inv] = call.phase

\* out is the start marker, then lines in their order, then the completion
\* marker (and the error's message, if any)
Between(out, lines) ==
    /\ Len(out) >= Len(lines) + 2
    /\ SubSeq(out, 1, Len(lines) + 1) = <<"Function started">> \o lines
    /\ out[Len(lines) + 2] = "Function completed"

\* C17 as stated: every log call of handle, also one without arguments,
\* appends one line; the lines are in the record in call order between the
\* two markers; log does not fail and returns nothing.
C17_EveryLogCallAppends ==
    /\ LogReturned
    /\ \A i \in Invs :
          /\ pc[i] = "handler" =>
                CurrentRun.Output = <<"Function started">> \o LinePerCall(logged[i])
          /\ \A r \in Records(i) : Between(r.Output, LinePerCall(logged[i]))

\* C17 as the code has it: a log call of handle with at least one argument
\* appends one line, a log call without arguments appends nothing; the lines
\* are in the record in call order between the two markers; log does not
\* fail and returns nothing.
C17_LogCallsWithArgumentsAppend ==
    /\ LogReturned
    /\ \A i \in Invs :
          /\ pc[i] = "handler" =>
                CurrentRun.Output =
                    <<"Function started">> \o LinePerPrintingCall(logged[i])
          /\ \A r \in Records(i) :
                Between(r.Output, LinePerPrintingCall(logged[i]))

\* C17: handle called log() and then log("a"); the record holds one line
\* between the markers
C17_Witness ==
    \E i \in Invs : \E r \in Records(i) :
        /\ logged[i] = <<<<>>, <<S("a")>>>>
        /\ r.Output = <<"Function started", "a", "Function completed">>

\* the documents a capability has passed through clean and returned
Cleaned ==
    IF call.op \in DocOps /\ call.out.result.OK
    THEN {call.out.result.docs[k] : k \in 1..Len(call.out.result.docs)}
    ELSE {}

\* C18 as stated: clean applied to a document it has cleaned succeeds and
\* leaves the document as it is.
C18_CleanIdempotent ==
    \A d \in Cleaned : clean(d) = [err |-> NoErr, doc |-> d]

\* C18 as the code has it: clean applied to a document it has cleaned
\* leaves the document as it is, and succeeds only when the document has
\* neither id nor accountId; an id or accountId that is a string by now is
\* refused with the cast error.
C18_CleanRefusesCleaned ==
    \A d \in Cleaned :
        /\ clean(d).doc = d
        /\ clean(d).err =
              (IF d.id # Absent THEN "unable to cast document id"
               ELSE IF d.accountId # Absent THEN "unable to cast document accountId"
               ELSE NoErr)

\* C18: getById returned a document with both fields as strings, and clean
\* refuses that document
C18_Witness ==
    /\ call.op = "getById"
    /\ Cleaned = {Doc(Str("03"), Str("02"))}
    /\ clean(Doc(Str("03"), Str("02"))).err = "unable to cast document id"

\* C19: on a new environment the lines the script's top level logged sit
\* in CurrentRun until line 55 replaces it; handle starts with a log that
\* holds the start marker alone, and the record handed to the history store
\* holds the markers, the lines handle logged and the error's message,
\* nothing else.
C19_TopLevelLogsDropped ==
    \A i \in Invs :
        /\ pc[i] \in {"load", "lookup", "prep", "run55"} =>
              Len(CurrentRun.Output) = preLogged[i]
        /\ pc[i] = "run62" => CurrentRun.Output = <<>>
        /\ (pc[i] = "handler" /\ logged[i] = <<>>) =>
              CurrentRun.Output = <<"Function started">>
        /\ \A r \in Records(i) :
              r.Output = <<"Function started">>
                         \o LinePerPrintingCall(logged[i])
                         \o <<"Function completed">>
                         \o (IF hErr[i] # NoErr THEN <<hErr[i]>> ELSE <<>>)

\* C19: the script's top level logged two lines, handle logged none, and
\* the record holds the two markers alone
C19_Witness ==
    \E i \in Invs : \E r \in Records(i) :
        /\ preLogged[i] = 2
        /\ logged[i] = <<>>
        /\ r.Output = <<"Function started", "Function completed">>

====
